---- MODULE Spec2Model ----
(***************************************************************************)
(* Model of birchmd/bp-shard-assign-poc: the MinHeap wrapper               *)
(* (src/src/min_heap.rs) and assign_shards (src/src/lib.rs).               *)
(*                                                                         *)
(* MinHeap<T> is BinaryHeap<Reverse<T>>: an array-backed binary max-heap   *)
(* under the reversed order.  The array is modelled as a sequence; the     *)
(* 0-based position p of the code is index p + 1 here.                     *)
(* Option<T> is modelled as a sequence: None = <<>>, Some(t) = <<t>>.      *)
(***************************************************************************)
EXTENDS Integers, Sequences, FiniteSets, Bags, TLC

\* ------------------------------------------------------------------ bounds
MaxKey == 1            \* heap keys of HeapSpec/BuildSpec are pairs over 0..MaxKey
MaxHeapLen == 4        \* largest heap HeapSpec grows
MaxBuildLen == 3       \* largest collection BuildSpec builds a heap from
MaxParticipants == 4   \* longest block_producers list of Spec
MaxShards == 3         \* largest num_shards of Spec
MaxMinValidators == 3  \* largest min_validators_per_shard of Spec
MaxStake == 1          \* stakes of Spec are drawn from 0..MaxStake

\* --------------------------------------------------------------- ordering
\* Ord of Rust tuples (and of a single integer seen as a 1-tuple):
\* lexicographic, leftmost field most significant.
Less(a, b) ==
    \E i \in 1..Len(a) : a[i] < b[i] /\ \A j \in 1..(i - 1) : a[j] = b[j]

Leq(a, b) == a = b \/ Less(a, b)

\* Ord of Reverse<T>: Reverse(a) <= Reverse(b) iff b <= a.
RevLeq(a, b) == Leq(b, a)

RevLess(a, b) == Less(b, a)

None == <<>>

Some(t) == <<t>>

\* ------------------------------------------------- BinaryHeap<Reverse<T>>
\* Hole::move_to and the final write of the hole's element are folded into
\* the recursion: d is the array with the hole at position pos, elt the
\* element taken out of it.
RECURSIVE SiftUpHole(_, _, _, _)
SiftUpHole(d, elt, start, pos) ==
    IF pos > start
    THEN LET parent == (pos - 1) \div 2
         IN  IF RevLeq(elt, d[parent + 1])
             THEN [d EXCEPT ![pos + 1] = elt]
             ELSE SiftUpHole([d EXCEPT ![pos + 1] = d[parent + 1]], elt, start, parent)
    ELSE [d EXCEPT ![pos + 1] = elt]

\* BinaryHeap::sift_up(start, pos)
SiftUp(d, start, pos) == SiftUpHole(d, d[pos + 1], start, pos)

\* mutant of GreaterChild: always descends to the left child
GreaterChild_Left(d, child) == child

\* the greater (in Reverse order) of the two children child, child + 1
GreaterChild(d, child) ==
    IF RevLeq(d[child + 1], d[child + 2]) THEN child + 1 ELSE child

\* usize::saturating_sub
SatSub(a, b) == IF a >= b THEN a - b ELSE 0

\* BinaryHeap::sift_down_to_bottom: walk the hole down to a leaf along the
\* greater children; yields the array and the hole's final position.
RECURSIVE HoleToBottom(_, _, _)
HoleToBottom(d, pos, end) ==
    LET child == 2 * pos + 1
    IN  IF child <= SatSub(end, 2)
        THEN LET c == GreaterChild(d, child)
             IN  HoleToBottom([d EXCEPT ![pos + 1] = d[c + 1]], c, end)
        ELSE IF child = end - 1
             THEN [data |-> [d EXCEPT ![pos + 1] = d[child + 1]], pos |-> child]
             ELSE [data |-> d, pos |-> pos]

SiftDownToBottom(d, pos) ==
    LET elt == d[pos + 1]
        b == HoleToBottom(d, pos, Len(d))
    IN  SiftUpHole(b.data, elt, pos, b.pos)

\* BinaryHeap::sift_down_range(pos, end), used by rebuild
RECURSIVE SiftDownHole(_, _, _, _)
SiftDownHole(d, elt, pos, end) ==
    LET child == 2 * pos + 1
    IN  IF child <= SatSub(end, 2)
        THEN LET c == GreaterChild(d, child)
             IN  IF RevLeq(d[c + 1], elt)
                 THEN [d EXCEPT ![pos + 1] = elt]
                 ELSE SiftDownHole([d EXCEPT ![pos + 1] = d[c + 1]], elt, c, end)
        ELSE IF child = end - 1 /\ RevLess(elt, d[child + 1])
             THEN [d EXCEPT ![pos + 1] = d[child + 1], ![child + 1] = elt]
             ELSE [d EXCEPT ![pos + 1] = elt]

SiftDown(d, pos) == SiftDownHole(d, d[pos + 1], pos, Len(d))

\* mutant of RebuildFrom: the loop stops at n > 1 and never sifts the root
RECURSIVE RebuildFrom_SkipRoot(_, _)
RebuildFrom_SkipRoot(d, n) ==
    IF n > 1 THEN RebuildFrom_SkipRoot(SiftDown(d, n - 1), n - 1) ELSE d

\* BinaryHeap::rebuild: n = len / 2; while n > 0 { n -= 1; sift_down(n) }
RECURSIVE RebuildFrom(_, _)
RebuildFrom(d, n) ==
    IF n > 0 THEN RebuildFrom(SiftDown(d, n - 1), n - 1) ELSE d

\* ---------------------------------------------------------------- MinHeap
\* mutant of Push: the new element is appended without sift_up
Push_NoSift(h, t) == Append(h, t)

\* MinHeap::push
Push(h, t) == SiftUp(Append(h, t), 0, Len(h))

\* mutant of Pop: the last element replaces the root without sifting down
Pop_NoSift(h) ==
    IF Len(h) = 0
    THEN [ret |-> None, heap |-> h]
    ELSE LET item == h[Len(h)]
             rest == SubSeq(h, 1, Len(h) - 1)
         IN  IF Len(rest) = 0
             THEN [ret |-> Some(item), heap |-> rest]
             ELSE [ret |-> Some(rest[1]), heap |-> [rest EXCEPT ![1] = item]]

\* MinHeap::pop: the returned Option and the heap left behind
Pop(h) ==
    IF Len(h) = 0
    THEN [ret |-> None, heap |-> h]
    ELSE LET item == h[Len(h)]
             rest == SubSeq(h, 1, Len(h) - 1)
         IN  IF Len(rest) = 0
             THEN [ret |-> Some(item), heap |-> rest]
             ELSE [ret |-> Some(rest[1]),
                   heap |-> SiftDownToBottom([rest EXCEPT ![1] = item], 0)]

\* mutant of Peek: looks at the last slot of the array instead of the first
Peek_Last(h) == IF Len(h) = 0 THEN None ELSE Some(h[Len(h)])

\* MinHeap::peek
Peek(h) == IF Len(h) = 0 THEN None ELSE Some(h[1])

\* FromIterator for MinHeap: collect into the Vec, then heapify
FromIter(s) == RebuildFrom(s, Len(s) \div 2)

\* IntoIterator for MinHeap: the elements in the order of the backing array
IntoIter(h) == h

\* ------------------------------------------------------------------ state
VARIABLES
    \* assign_shards (Spec)
    block_producers,            \* argument: sequence of ValidatorStake
    num_shards,                 \* argument
    min_validators_per_shard,   \* argument
    shard_index,                \* the MinHeap of shard keys
    bp_iter,                    \* number of elements already drawn from bp_iter
    result,                     \* Vec<Vec<ValidatorStake>>
    buffer,                     \* buffer of the latest duplicate-avoidance scan
    pc,                         \* position in assign_shards, or how it ended
    \* a MinHeap driven by arbitrary calls (HeapSpec, BuildSpec)
    heap,                       \* the MinHeap under test
    resident,                   \* bag of keys pushed and not yet popped
    ret,                        \* what the latest pop or peek returned
    op,                         \* the latest call
    \* collect versus repeated push (BuildSpec)
    keys,                       \* the collection the heaps are built from
    to_push,                    \* bag of keys not yet pushed into heap_pushed
    heap_pushed,                \* the MinHeap filled by push
    out_collect,                \* keys popped from the collected heap
    out_push                    \* keys popped from the pushed heap

allocVars == <<block_producers, num_shards, min_validators_per_shard,
               shard_index, bp_iter, result, buffer, pc>>

heapVars == <<heap, resident, ret, op>>

buildVars == <<keys, to_push, heap_pushed, out_collect, out_push>>

vars == <<allocVars, heapVars, buildVars>>

\* ---------------------------------------------------------- assign_shards
\* struct ValidatorStake { account_id, stake }; derived PartialEq compares
\* both fields.  Balance is u128 and the counts are usize: the sums formed
\* from the stakes and counts of the inputs below stay far from either
\* width, so they are plain integers here.
ValidatorStake(id, stake) == [account_id |-> id, stake |-> stake]

\* mutant of Contains: compares with the latest element only
Contains_Last(v, x) == Len(v) > 0 /\ v[Len(v)] = x

\* Vec::contains
Contains(v, x) == \E i \in 1..Len(v) : v[i] = x

Max(a, b) == IF a >= b THEN a ELSE b

num_block_producers == Len(block_producers)

\* mutant of required_validator_count: cmp::min instead of cmp::max
required_validator_count_Min ==
    IF num_block_producers <= num_shards * min_validators_per_shard
    THEN num_block_producers
    ELSE num_shards * min_validators_per_shard

required_validator_count ==
    Max(num_block_producers, num_shards * min_validators_per_shard)

\* mutant of IterHasNext: the take(..) is missing, the cycle never ends
IterHasNext_NoTake == num_block_producers > 0

\* mutant of IterHasNext: take(required_validator_count - 1)
IterHasNext_ShortTake ==
    bp_iter + 1 < required_validator_count /\ num_block_producers > 0

\* block_producers.into_iter().cycle().enumerate().take(required): whether
\* next() yields an element (a cycle over an empty Vec yields nothing)
IterHasNext == bp_iter < required_validator_count /\ num_block_producers > 0

\* the pair (assignment_index, bp) the next call of next() yields
assignment_index == bp_iter

NextBp == block_producers[(bp_iter % num_block_producers) + 1]

\* mutant of InitialShardIndex: every tuple carries shard id 0
InitialShardIndex_SameId == FromIter([s \in 1..num_shards |-> <<0, 0, 0>>])

\* (0..num_shards).map(|s| (0, 0, s)).collect()
InitialShardIndex == FromIter([s \in 1..num_shards |-> <<0, 0, s - 1>>])

\* mutant of AssignTo: the shard's stake is not increased
AssignTo_NoStake(h, t, bp) == Push(h, <<t[1] + 1, t[2], t[3]>>)

\* push of the updated key and result[shard_id].push(bp)
AssignTo(h, t, bp) == Push(h, <<t[1] + 1, t[2] + bp.stake, t[3]>>)

PushBp(res, shard_id, bp) ==
    [res EXCEPT ![shard_id + 1] = Append(res[shard_id + 1], bp)]

\* mutant of ScanLoop: the receiving shard's key is pushed back unchanged
RECURSIVE ScanLoop_NoIncrement(_, _, _, _)
ScanLoop_NoIncrement(h, res, bp, buf) ==
    LET p == Pop(h)
    IN  IF p.ret = None
        THEN [found |-> FALSE, heap |-> p.heap, buffer |-> buf, shard_id |-> 0]
        ELSE LET t == p.ret[1]
             IN  IF Contains(res[t[3] + 1], bp)
                 THEN ScanLoop_NoIncrement(p.heap, res, bp, Append(buf, t))
                 ELSE [found |-> TRUE, heap |-> Push(p.heap, t),
                       buffer |-> buf, shard_id |-> t[3]]

\* the loop of lines 75-91: pop until a shard without bp turns up
RECURSIVE ScanLoop(_, _, _, _)
ScanLoop(h, res, bp, buf) ==
    LET p == Pop(h)
    IN  IF p.ret = None
        THEN [found |-> FALSE, heap |-> p.heap, buffer |-> buf, shard_id |-> 0]
        ELSE LET t == p.ret[1]
             IN  IF Contains(res[t[3] + 1], bp)
                 THEN ScanLoop(p.heap, res, bp, Append(buf, t))
                 ELSE [found |-> TRUE, heap |-> AssignTo(p.heap, t, bp),
                       buffer |-> buf, shard_id |-> t[3]]

\* mutant of PushAll: the first buffered tuple is not pushed back
RECURSIVE PushAll_DropFirst(_, _)
PushAll_DropFirst(h, buf) ==
    IF Len(buf) <= 1 THEN h
    ELSE PushAll_DropFirst(Push(h, buf[Len(buf)]), SubSeq(buf, 1, Len(buf) - 1))

\* for tuple in buffer { shard_index.push(tuple) }
RECURSIVE PushAll(_, _)
PushAll(h, buf) ==
    IF buf = <<>> THEN h ELSE PushAll(Push(h, Head(buf)), Tail(buf))

\* mutant of Rekey: the keys stay (validator_count, stake, shard_id)
Rekey_Identity(s) == s

\* .map(|(validator_count, stake, shard_id)| (stake, validator_count, shard_id))
Rekey(s) == [i \in 1..Len(s) |-> <<s[i][2], s[i][1], s[i][3]>>]

\* mutant of Start: the check is off by one (<= compared as <)
Start_OffByOne ==
    /\ pc = "start"
    /\ shard_index' = InitialShardIndex
    /\ IF num_block_producers + 1 < min_validators_per_shard
       THEN /\ pc' = "panic_not_enough_block_producers"
            /\ UNCHANGED result
       ELSE /\ pc' = "quota"
            /\ result' = [s \in 1..num_shards |-> <<>>]
    /\ UNCHANGED <<block_producers, num_shards, min_validators_per_shard,
                   bp_iter, buffer>>

\* lines 37-52: build shard_index, check the supply, create result
Start ==
    /\ pc = "start"
    /\ shard_index' = InitialShardIndex
    /\ IF num_block_producers < min_validators_per_shard
       THEN /\ pc' = "panic_not_enough_block_producers"
            /\ UNCHANGED result
       ELSE /\ pc' = "quota"
            /\ result' = [s \in 1..num_shards |-> <<>>]
    /\ UNCHANGED <<block_producers, num_shards, min_validators_per_shard,
                   bp_iter, buffer>>

\* line 56 on an empty heap: peek().unwrap() panics
QuotaPeekNone ==
    /\ pc = "quota"
    /\ Peek(shard_index) = None
    /\ pc' = "panic_peek_unwrap"
    /\ UNCHANGED <<block_producers, num_shards, min_validators_per_shard,
                   shard_index, bp_iter, result, buffer>>

QuotaLoopCondition ==
    /\ pc = "quota"
    /\ Peek(shard_index) # None
    /\ Peek(shard_index)[1][1] < min_validators_per_shard

\* lines 57-59: bp_iter.next() is None
QuotaSupplyExhausted ==
    /\ QuotaLoopCondition
    /\ ~IterHasNext
    /\ pc' = "panic_bp_iter_exhausted"
    /\ UNCHANGED <<block_producers, num_shards, min_validators_per_shard,
                   shard_index, bp_iter, result, buffer>>

\* lines 64-67
QuotaFirstPass ==
    /\ QuotaLoopCondition
    /\ IterHasNext
    /\ assignment_index < num_block_producers
    /\ LET p == Pop(shard_index)
           t == p.ret[1]
       IN  /\ shard_index' = AssignTo(p.heap, t, NextBp)
           /\ result' = PushBp(result, t[3], NextBp)
    /\ bp_iter' = bp_iter + 1
    /\ UNCHANGED <<block_producers, num_shards, min_validators_per_shard,
                   buffer, pc>>

\* lines 68-94
QuotaDuplicate ==
    /\ QuotaLoopCondition
    /\ IterHasNext
    /\ assignment_index >= num_block_producers
    /\ LET p == Pop(shard_index)
           t == p.ret[1]
           s == ScanLoop(p.heap, result, NextBp, <<t>>)
       IN  /\ Contains(result[t[3] + 1], NextBp)
           /\ buffer' = s.buffer
           /\ IF s.found
              THEN /\ shard_index' = PushAll(s.heap, s.buffer)
                   /\ result' = PushBp(result, s.shard_id, NextBp)
                   /\ pc' = pc
              ELSE /\ shard_index' = s.heap
                   /\ result' = result
                   /\ pc' = "panic_shard_index_empty"
    /\ bp_iter' = bp_iter + 1
    /\ UNCHANGED <<block_producers, num_shards, min_validators_per_shard>>

\* lines 95-98
QuotaRepeatPass ==
    /\ QuotaLoopCondition
    /\ IterHasNext
    /\ assignment_index >= num_block_producers
    /\ LET p == Pop(shard_index)
           t == p.ret[1]
       IN  /\ ~Contains(result[t[3] + 1], NextBp)
           /\ shard_index' = AssignTo(p.heap, t, NextBp)
           /\ result' = PushBp(result, t[3], NextBp)
    /\ bp_iter' = bp_iter + 1
    /\ UNCHANGED <<block_producers, num_shards, min_validators_per_shard,
                   buffer, pc>>

\* mutant of QuotaLoopExit: the loop stops one participant short of the quota
QuotaLoopExit_OffByOne ==
    /\ pc = "quota"
    /\ Peek(shard_index) # None
    /\ ~(Peek(shard_index)[1][1] + 1 < min_validators_per_shard)

QuotaLoopExit ==
    /\ pc = "quota"
    /\ Peek(shard_index) # None
    /\ ~(Peek(shard_index)[1][1] < min_validators_per_shard)

\* lines 101-110: supply remains, re-index the shards by stake
BalanceReindex ==
    /\ QuotaLoopExit
    /\ IterHasNext
    /\ shard_index' = FromIter(Rekey(IntoIter(shard_index)))
    /\ pc' = "balance"
    /\ UNCHANGED <<block_producers, num_shards, min_validators_per_shard,
                   bp_iter, result, buffer>>

\* lines 101-102, 125: nothing left to assign
ReturnAfterQuota ==
    /\ QuotaLoopExit
    /\ ~IterHasNext
    /\ pc' = "done"
    /\ UNCHANGED <<block_producers, num_shards, min_validators_per_shard,
                   shard_index, bp_iter, result, buffer>>

\* mutant of BalanceAssign: the pushed key keeps the old validator count
BalanceAssign_NoCount ==
    /\ pc = "balance"
    /\ IterHasNext
    /\ LET p == Pop(shard_index)
       IN  IF p.ret = None
           THEN /\ pc' = "panic_shard_index_empty"
                /\ shard_index' = p.heap
                /\ result' = result
           ELSE LET t == p.ret[1]
                IN  /\ shard_index' =
                           Push(p.heap, <<t[1] + NextBp.stake, t[2], t[3]>>)
                    /\ result' = PushBp(result, t[3], NextBp)
                    /\ pc' = pc
    /\ bp_iter' = bp_iter + 1
    /\ UNCHANGED <<block_producers, num_shards, min_validators_per_shard, buffer>>

\* lines 116-122: one iteration of the balance loop
BalanceAssign ==
    /\ pc = "balance"
    /\ IterHasNext
    /\ LET p == Pop(shard_index)
       IN  IF p.ret = None
           THEN /\ pc' = "panic_shard_index_empty"
                /\ shard_index' = p.heap
                /\ result' = result
           ELSE LET t == p.ret[1]
                IN  /\ shard_index' =
                           Push(p.heap, <<t[1] + NextBp.stake, t[2] + 1, t[3]>>)
                    /\ result' = PushBp(result, t[3], NextBp)
                    /\ pc' = pc
    /\ bp_iter' = bp_iter + 1
    /\ UNCHANGED <<block_producers, num_shards, min_validators_per_shard, buffer>>

\* lines 116, 125: bp_iter is drained
ReturnAfterBalance ==
    /\ pc = "balance"
    /\ ~IterHasNext
    /\ pc' = "done"
    /\ UNCHANGED <<block_producers, num_shards, min_validators_per_shard,
                   shard_index, bp_iter, result, buffer>>

\* ------------------------------------------------------------ Spec inputs
\* Account ids are opaque and only compared for equality, so a list of n
\* ids is taken up to renaming: the first id is 1 and each later id is an
\* earlier one or the next fresh one.  Repeated ids are included.
IdLists(n) ==
    {s \in [1..n -> 1..n] :
        \A i \in 1..n : \/ \E j \in 1..(i - 1) : s[i] = s[j]
                        \/ s[i] = Cardinality({s[j] : j \in 1..(i - 1)}) + 1}

BlockProducerLists ==
    UNION {{[i \in 1..n |-> ValidatorStake(ids[i], stakes[i])] :
                 ids \in IdLists(n), stakes \in [1..n -> 0..MaxStake]} :
           n \in 0..MaxParticipants}

\* the letters of (b'A'..b'Z'): the range excludes 'Z'
NumValidatorNames == 25

\* validator_names of the tests: the first size names of 'A'..'Y', as the
\* ids 1..25; take(size) yields no more names than the range holds
validator_names(size) ==
    [i \in 1..(IF size <= NumValidatorNames THEN size ELSE NumValidatorNames) |-> i]

\* make_validators of the tests: the stakes zipped with the names; zip
\* stops at the shorter of the two
make_validators(stakes) ==
    LET names == validator_names(Len(stakes))
    IN  [i \in 1..Len(names) |-> ValidatorStake(names[i], stakes[i])]

STEP_STAKES == <<100, 10, 10, 10, 10, 10, 10, 10, 10, 10, 10>>

EXPONENTIAL_STAKES == <<100, 90, 81, 73, 66, 59, 53, 48, 43, 39, 35, 31>>

\* the calls made by the tests of lib.rs
TestCalls ==
    {<<make_validators(STEP_STAKES), 2, 2>>,
     <<make_validators(EXPONENTIAL_STAKES), 3, 2>>,
     <<make_validators(EXPONENTIAL_STAKES), 6, 2>>,
     <<make_validators(EXPONENTIAL_STAKES), 24, 2>>,
     <<make_validators(<<100>>), 1, 3>>}

Calls ==
    (BlockProducerLists \X (0..MaxShards) \X (0..MaxMinValidators))
        \cup TestCalls

HeapIdle ==
    /\ heap = <<>>
    /\ resident = EmptyBag
    /\ ret = None
    /\ op = "new"

BuildIdle ==
    /\ keys = <<>>
    /\ to_push = EmptyBag
    /\ heap_pushed = <<>>
    /\ out_collect = <<>>
    /\ out_push = <<>>

Init ==
    /\ \E c \in Calls :
          /\ block_producers = c[1]
          /\ num_shards = c[2]
          /\ min_validators_per_shard = c[3]
    /\ shard_index = <<>>
    /\ bp_iter = 0
    /\ result = <<>>
    /\ buffer = <<>>
    /\ pc = "start"
    /\ HeapIdle
    /\ BuildIdle

Next ==
    \/ Start /\ UNCHANGED <<heapVars, buildVars>>
    \/ QuotaPeekNone /\ UNCHANGED <<heapVars, buildVars>>
    \/ QuotaSupplyExhausted /\ UNCHANGED <<heapVars, buildVars>>
    \/ QuotaFirstPass /\ UNCHANGED <<heapVars, buildVars>>
    \/ QuotaDuplicate /\ UNCHANGED <<heapVars, buildVars>>
    \/ QuotaRepeatPass /\ UNCHANGED <<heapVars, buildVars>>
    \/ BalanceReindex /\ UNCHANGED <<heapVars, buildVars>>
    \/ ReturnAfterQuota /\ UNCHANGED <<heapVars, buildVars>>
    \/ BalanceAssign /\ UNCHANGED <<heapVars, buildVars>>
    \/ ReturnAfterBalance /\ UNCHANGED <<heapVars, buildVars>>

Spec == Init /\ [][Next]_vars

\* ------------------------------------------------------- HeapSpec
\* A MinHeap driven by arbitrary calls of collect, push, pop and peek, as
\* in the tests of min_heap.rs.  Keys are pairs, compared as Rust tuples.
HeapKeys == (0..MaxKey) \X (0..MaxKey)

KeyLists(n) == UNION {[1..k -> HeapKeys] : k \in 0..n}

BagOfSeq(s) ==
    [k \in {s[i] : i \in 1..Len(s)} |-> Cardinality({i \in 1..Len(s) : s[i] = k})]

AllocIdle ==
    /\ block_producers = <<>>
    /\ num_shards = 0
    /\ min_validators_per_shard = 0
    /\ shard_index = <<>>
    /\ bp_iter = 0
    /\ result = <<>>
    /\ buffer = <<>>
    /\ pc = "idle"

HeapInit == AllocIdle /\ HeapIdle /\ BuildIdle

\* let heap: MinHeap<_> = s.iter().copied().collect()
HeapCollect(s) ==
    /\ op = "new"
    /\ heap' = FromIter(s)
    /\ resident' = BagOfSeq(s)
    /\ ret' = None
    /\ op' = "collect"

\* heap.push(t)
HeapPush(t) ==
    /\ Len(heap) < MaxHeapLen
    /\ heap' = Push(heap, t)
    /\ resident' = resident (+) SetToBag({t})
    /\ ret' = None
    /\ op' = "push"

\* heap.pop()
HeapPop ==
    /\ LET p == Pop(heap)
       IN  /\ heap' = p.heap
           /\ ret' = p.ret
           /\ resident' = IF p.ret = None
                          THEN resident
                          ELSE resident (-) SetToBag({p.ret[1]})
    /\ op' = "pop"

\* heap.peek()
HeapPeek ==
    /\ ret' = Peek(heap)
    /\ op' = "peek"
    /\ UNCHANGED <<heap, resident>>

HeapNext ==
    \/ \E s \in KeyLists(MaxHeapLen) : HeapCollect(s) /\ UNCHANGED <<allocVars, buildVars>>
    \/ \E t \in HeapKeys : HeapPush(t) /\ UNCHANGED <<allocVars, buildVars>>
    \/ HeapPop /\ UNCHANGED <<allocVars, buildVars>>
    \/ HeapPeek /\ UNCHANGED <<allocVars, buildVars>>

HeapSpec == HeapInit /\ [][HeapNext]_vars

\* ------------------------------------------------------ BuildSpec
\* The same collection of keys goes into two heaps: one by collect, one by
\* push in an arbitrary order; then both are popped side by side until
\* pop returns None.
BuildInit ==
    /\ AllocIdle
    /\ HeapIdle
    /\ keys \in KeyLists(MaxBuildLen)
    /\ to_push = BagOfSeq(keys)
    /\ heap_pushed = <<>>
    /\ out_collect = <<>>
    /\ out_push = <<>>

BuildCollect ==
    /\ op = "new"
    /\ heap' = FromIter(keys)
    /\ op' = "collect"
    /\ UNCHANGED <<resident, ret, buildVars>>

BuildPush(k) ==
    /\ BagIn(k, to_push)
    /\ heap_pushed' = Push(heap_pushed, k)
    /\ to_push' = to_push (-) SetToBag({k})
    /\ UNCHANGED <<heapVars, keys, out_collect, out_push>>

BuildFilled == op = "collect" /\ to_push = EmptyBag

BuildDrained ==
    /\ out_collect # <<>>
    /\ out_collect[Len(out_collect)] = None
    /\ out_push[Len(out_push)] = None

BuildPopBoth ==
    /\ BuildFilled
    /\ ~BuildDrained
    /\ LET c == Pop(heap)
           p == Pop(heap_pushed)
       IN  /\ heap' = c.heap
           /\ heap_pushed' = p.heap
           /\ out_collect' = Append(out_collect, c.ret)
           /\ out_push' = Append(out_push, p.ret)
    /\ UNCHANGED <<resident, ret, op, keys, to_push>>

BuildNext ==
    \/ BuildCollect /\ UNCHANGED allocVars
    \/ \E k \in HeapKeys : BuildPush(k) /\ UNCHANGED allocVars
    \/ BuildPopBoth /\ UNCHANGED allocVars

BuildSpec == BuildInit /\ [][BuildNext]_vars

\* ------------------------------------------------- claims on assign_shards
DistinctIds ==
    \A i, j \in 1..Len(block_producers) :
        i # j => block_producers[i].account_id # block_producers[j].account_id

\* num_shards >= 1, enough block producers, pairwise distinct ids
ValidInput ==
    /\ num_shards >= 1
    /\ num_block_producers >= min_validators_per_shard
    /\ DistinctIds

Panicked ==
    pc \in {"panic_not_enough_block_producers", "panic_peek_unwrap",
            "panic_bp_iter_exhausted", "panic_shard_index_empty"}

RECURSIVE SumLen(_)
SumLen(res) == IF res = <<>> THEN 0 ELSE Len(Head(res)) + SumLen(Tail(res))

RECURSIVE SumStake(_)
SumStake(v) == IF v = <<>> THEN 0 ELSE Head(v).stake + SumStake(Tail(v))

Abs(x) == IF x >= 0 THEN x ELSE -x

\* C1 (Quota): when assign_shards returns on a valid input, every shard of
\* the returned list holds at least min_validators_per_shard participants.
C1_Quota ==
    (pc = "done" /\ ValidInput) =>
        /\ Len(result) = num_shards
        /\ \A s \in 1..Len(result) : Len(result[s]) >= min_validators_per_shard

\* a valid call returned after cycling through the supply more than once
C1_Witness ==
    /\ pc = "done"
    /\ ValidInput
    /\ min_validators_per_shard >= 2
    /\ num_shards >= 2
    /\ bp_iter > num_block_producers

\* C2 (No duplicates): with pairwise distinct ids, in every state of
\* assign_shards and in the returned result, no shard holds the same
\* participant twice.
C2_NoDuplicates ==
    DistinctIds =>
        \A s \in 1..Len(result) :
            \A i, j \in 1..Len(result[s]) :
                i # j => result[s][i].account_id # result[s][j].account_id

\* the duplicate-avoidance branch has moved a participant to another shard
C2_Witness ==
    /\ DistinctIds
    /\ pc = "quota"
    /\ Len(buffer) >= 2
    /\ bp_iter > num_block_producers

\* C3 (Conservation): when assign_shards returns on a valid input, the
\* lengths of the shards add up to
\* max(participants.len(), num_shards * min_validators_per_shard).
C3_Conservation ==
    (pc = "done" /\ ValidInput) =>
        SumLen(result) =
            Max(num_block_producers, num_shards * min_validators_per_shard)

\* a valid call returned through the balance phase
C3_Witness ==
    /\ pc = "done"
    /\ ValidInput
    /\ num_shards >= 2
    /\ min_validators_per_shard >= 1
    /\ num_block_producers > num_shards * min_validators_per_shard

\* a valid call returned after cycling, without a balance phase
C3_WitnessCycled ==
    /\ pc = "done"
    /\ ValidInput
    /\ num_shards >= 2
    /\ num_block_producers < num_shards * min_validators_per_shard

\* C4 (Precondition failure): with fewer participants than
\* min_validators_per_shard the call never gets past the check: it panics
\* there, nothing has been drawn or assigned, and it never returns.
C4_PreconditionFailure ==
    num_block_producers < min_validators_per_shard =>
        /\ pc \in {"start", "panic_not_enough_block_producers"}
        /\ result = <<>>
        /\ bp_iter = 0

\* the check has failed for a call with several shards and some participants
C4_Witness ==
    /\ pc = "panic_not_enough_block_producers"
    /\ num_shards >= 2
    /\ num_block_producers >= 1

\* the inputs C5 is about: the supply has to be cycled (or just suffices)
CycledInput ==
    /\ DistinctIds
    /\ num_shards >= 1
    /\ min_validators_per_shard <= num_block_producers
    /\ num_block_producers <= num_shards * min_validators_per_shard

\* C5 (Even fill): on these inputs assign_shards does not fail internally
\* and returns exactly min_validators_per_shard participants per shard.
C5_EvenFill ==
    CycledInput =>
        /\ ~Panicked
        /\ pc = "done" =>
              \A s \in 1..Len(result) :
                  Len(result[s]) = min_validators_per_shard

\* C6 (Scenario A): 2 shards, quota 2, stakes 100, 10 x 10: shard 0 gets 2
\* participants of stake 110, shard 1 the other 9 of stake 90.
ScenarioA ==
    /\ block_producers = make_validators(STEP_STAKES)
    /\ num_shards = 2
    /\ min_validators_per_shard = 2

C6_ScenarioA ==
    (ScenarioA /\ pc \notin {"start", "quota", "balance"}) =>
        /\ pc = "done"
        /\ Len(result) = 2
        /\ Len(result[1]) = 2
        /\ SumStake(result[1]) = 110
        /\ Len(result[2]) = 9
        /\ SumStake(result[2]) = 90
        /\ \A i \in 1..Len(block_producers) :
              Contains(result[1], block_producers[i])
                  # Contains(result[2], block_producers[i])

C6_Witness == ScenarioA /\ pc = "done"

\* C7 (Scenario B): 12 exponentially decreasing stakes, quota 2: 3 shards
\* get 4 participants each within 3 of stake 239; 6 and 24 shards get 2
\* each within 13 and 41 of stake 119.
ScenarioB(n) ==
    /\ block_producers = make_validators(EXPONENTIAL_STAKES)
    /\ num_shards = n
    /\ min_validators_per_shard = 2

\* the asserts of test_exponential_distribution_common: every shard has
\* count validators, none of them twice (the HashSet of the shard is as
\* long as the shard), and a stake sum within tolerance of the average
EvenResult(count, average, tolerance) ==
    /\ pc = "done"
    /\ Len(result) = num_shards
    /\ \A s \in 1..Len(result) :
          /\ Len(result[s]) = count
          /\ Cardinality({result[s][i] : i \in 1..Len(result[s])}) = Len(result[s])
          /\ Abs(SumStake(result[s]) - average) < tolerance

C7_ScenarioB ==
    /\ (ScenarioB(3) /\ pc \notin {"start", "quota", "balance"}) =>
           EvenResult(4, 239, 3)
    /\ (ScenarioB(6) /\ pc \notin {"start", "quota", "balance"}) =>
           EvenResult(2, 119, 13)
    /\ (ScenarioB(24) /\ pc \notin {"start", "quota", "balance"}) =>
           EvenResult(2, 119, 41)

C7_Witness == ScenarioB(24) /\ pc = "done" /\ bp_iter = 48

\* ------------------------------------------------------ claims on MinHeap
\* C8 (pop order): pop returns None exactly when nothing is resident;
\* otherwise it returns a resident key no greater than any resident key and
\* removes one copy of it, leaving the others in the heap; two pops in a
\* row return keys in non-decreasing order.
C8_PopOrder ==
    [][op' = "pop" =>
          /\ IF resident = EmptyBag
             THEN ret' = None /\ heap' = <<>>
             ELSE /\ ret' # None
                  /\ BagIn(ret'[1], resident)
                  /\ \A k \in BagToSet(resident) : Leq(ret'[1], k)
                  /\ BagOfSeq(heap') = resident (-) SetToBag({ret'[1]})
          /\ (op = "pop" /\ ret # None /\ ret' # None) => Leq(ret[1], ret'[1])]_vars

\* a pop after pushes and pops left at least three keys behind
C8_Witness ==
    /\ op = "pop"
    /\ ret # None
    /\ Len(heap) >= 3
    /\ \E i \in 1..Len(heap) : heap[i] # ret[1]

\* C9 (bulk build): a heap built by collect pops the same sequence as a
\* heap the same keys were pushed into in any order: the keys in
\* non-decreasing order with their multiplicity, then None.
C9_BuildEquivalence ==
    BuildFilled =>
        /\ out_collect = out_push
        /\ \A i \in 1..(Len(out_collect) - 1) :
              /\ out_collect[i] # None
              /\ out_collect[i + 1] # None => Leq(out_collect[i][1], out_collect[i + 1][1])
        /\ BuildDrained =>
              /\ Len(out_collect) = Len(keys) + 1
              /\ BagOfSeq([i \in 1..Len(keys) |-> out_collect[i][1]]) = BagOfSeq(keys)

\* both heaps are drained and the collection was neither sorted nor
\* free of repeated keys
C9_Witness ==
    /\ BuildFilled
    /\ BuildDrained
    /\ Len(keys) >= 3
    /\ Less(keys[2], keys[1])
    /\ keys[3] = keys[1]

\* C10 (peek): peek returns what the next pop would return (None on an
\* empty heap) and leaves the resident keys as they were; a pop right after
\* a peek returns the peeked key.
C10_PeekNonDestructive ==
    [][/\ op' = "peek" =>
              /\ ret' = Pop(heap).ret
              /\ BagOfSeq(heap') = resident
              /\ resident' = resident
       /\ (op = "peek" /\ op' = "pop") => ret' = ret]_vars

\* a peek found a key on a heap of at least three keys
C10_Witness ==
    /\ op = "peek"
    /\ ret # None
    /\ Len(heap) >= 3


\* --------------------------------------- claims on the steps of assign_shards
\* C11 (supply suffices): on a valid input, whenever the quota loop's
\* condition holds, bp_iter still yields an element, so the expect of
\* lines 57-59 never fails.
C11_SupplySuffices ==
    ValidInput =>
        /\ QuotaLoopCondition => IterHasNext
        /\ pc # "panic_bp_iter_exhausted"

\* the account ids occurring in block_producers
Identities == {block_producers[i].account_id : i \in 1..Len(block_producers)}

\* C12 (scan finds a shard): with at least min_validators_per_shard
\* participants and at least that many distinct identities among them, the
\* duplicate-avoidance scan assigns the participant before the queue is
\* empty.
C12_ScanFindsShard ==
    (/\ num_block_producers >= min_validators_per_shard
     /\ Cardinality(Identities) >= min_validators_per_shard) =>
        pc # "panic_shard_index_empty"


\* C13 (queue never empty when popped): on a valid input no peek or pop of
\* assign_shards finds shard_index empty: neither the unwrap of line 56 nor
\* an expect("shard_index should never be empty") fails, and the heap holds
\* an entry at the head of every loop iteration.
C13_QueueNeverEmpty ==
    ValidInput =>
        /\ pc \notin {"panic_peek_unwrap", "panic_shard_index_empty"}
        /\ pc \in {"quota", "balance"} => shard_index # <<>>

\* a scan on a valid input went through every entry of the queue but one
C13_Witness ==
    /\ ValidInput
    /\ pc = "quota"
    /\ num_shards >= 3
    /\ Len(buffer) = num_shards - 1


\* the entries resident in a heap, and the one of a given shard
Entries(h) == {h[i] : i \in 1..Len(h)}

EntryOf(h, shard_id) == CHOOSE e \in Entries(h) : e[3] = shard_id

OneEntryPerShard(h) ==
    /\ Len(h) = num_shards
    /\ {h[i][3] : i \in 1..Len(h)} = 0..(num_shards - 1)

\* C14 (scan restores): a completed duplicate-avoidance step extends the
\* sequence of exactly one shard, one that did not hold the participant,
\* and changes that shard's entry to (count + 1, stake + bp.stake, id);
\* every other shard keeps its sequence and its entry, and the queue again
\* holds one entry per shard.
C14_ScanRestores ==
    [][(QuotaDuplicate /\ pc' = "quota") =>
          \E r \in 0..(num_shards - 1) :
              LET old == EntryOf(shard_index, r)
              IN  /\ ~Contains(result[r + 1], NextBp)
                  /\ result' = [result EXCEPT ![r + 1] = Append(@, NextBp)]
                  /\ EntryOf(shard_index', r) =
                         <<old[1] + 1, old[2] + NextBp.stake, r>>
                  /\ \A s \in (0..(num_shards - 1)) \ {r} :
                         EntryOf(shard_index', s) = EntryOf(shard_index, s)
                  /\ OneEntryPerShard(shard_index)
                  /\ OneEntryPerShard(shard_index')
                  /\ \A i \in 1..Len(buffer') :
                         /\ buffer'[i] \in Entries(shard_index')
                         /\ buffer'[i][3] # r]_vars

\* right after a scan that set two entries aside and pushed them back
C14_Witness ==
    /\ pc = "quota"
    /\ Len(buffer) >= 2
    /\ \A i \in 1..Len(buffer) : buffer[i] \in Entries(shard_index)
    /\ \E s \in 1..Len(result) :
          /\ result[s] # <<>>
          /\ result[s][Len(result[s])] =
                 block_producers[((bp_iter - 1) % num_block_producers) + 1]
          /\ \A i \in 1..Len(buffer) : buffer[i][3] # s - 1


\* more block producers than the quotas of all shards together
Surplus == num_block_producers > num_shards * min_validators_per_shard

\* C15 (balance phase exactly on surplus): on a valid input, when the quota
\* loop exits, bp_iter still holds an element if and only if
\* participants.len() > num_shards * min_validators_per_shard; so the
\* balance phase is entered, and assigns a participant, exactly then.
C15_BalanceOnSurplus ==
    ValidInput =>
        /\ QuotaLoopExit => (IterHasNext <=> Surplus)
        /\ pc = "balance" => Surplus
        /\ pc = "done" =>
              (Surplus <=>
                   SumLen(result) > num_shards * min_validators_per_shard)

\* the quota loop has just exited with supply left and the shards re-indexed
C15_Witness ==
    /\ ValidInput
    /\ pc = "balance"
    /\ num_shards >= 2
    /\ min_validators_per_shard >= 1
    /\ bp_iter = num_shards * min_validators_per_shard
    /\ IterHasNext


\* (a, b, c) < (x, y, z) written out field by field
TripleLess(a, b) ==
    \/ a[1] < b[1]
    \/ a[1] = b[1] /\ a[2] < b[2]
    \/ a[1] = b[1] /\ a[2] = b[2] /\ a[3] < b[3]

\* the balance-phase key of a shard, computed from its sequence
StakeKey(shard_id) ==
    <<SumStake(result[shard_id + 1]), Len(result[shard_id + 1]), shard_id>>

\* C16 (balance phase greedy choice): each balance step takes the next
\* participant in input order and appends it to the shard whose (total
\* stake, count, shard id) is least among all shards; that shard's key
\* grows by the participant's stake and by 1, and no other shard changes.
C16_BalanceGreedy ==
    [][(BalanceAssign /\ pc' = "balance") =>
          /\ bp_iter < num_block_producers
          /\ \E r \in 0..(num_shards - 1) :
                LET bp == block_producers[bp_iter + 1]
                IN  /\ \A s \in (0..(num_shards - 1)) \ {r} :
                           /\ TripleLess(StakeKey(r), StakeKey(s))
                           /\ EntryOf(shard_index', s) = StakeKey(s)
                    /\ result' = [result EXCEPT ![r + 1] = Append(@, bp)]
                    /\ EntryOf(shard_index', r) =
                           <<StakeKey(r)[1] + bp.stake, StakeKey(r)[2] + 1, r>>
                    /\ OneEntryPerShard(shard_index')]_vars

\* in the balance phase a shard with more participants but less stake than
\* another one has been filled further
C16_Witness ==
    /\ pc = "balance"
    /\ bp_iter > num_shards * min_validators_per_shard + 1
    /\ \E s, t \in 1..Len(result) :
          /\ Len(result[s]) > Len(result[t]) + 1
          /\ SumStake(result[s]) < SumStake(result[t])


\* the entries of a heap that no other entry is smaller than
MinimalEntries(h) ==
    {e \in Entries(h) : \A f \in Entries(h) : e = f \/ TripleLess(e, f)}

\* C17 (determinism): the entries resident in shard_index always carry
\* pairwise distinct shard ids, hence are pairwise distinct keys with a
\* single least one, and that one is what peek and pop return whatever the
\* layout of the heap; so each step, and with it the returned assignment,
\* is determined by the arguments.
C17_Determinism ==
    /\ \A i, j \in 1..Len(shard_index) :
          i # j => /\ shard_index[i][3] # shard_index[j][3]
                   /\ shard_index[i] # shard_index[j]
    /\ shard_index # <<>> =>
          /\ Cardinality(MinimalEntries(shard_index)) = 1
          /\ \A e \in MinimalEntries(shard_index) :
                /\ Peek(shard_index) = Some(e)
                /\ Pop(shard_index).ret = Some(e)

\* two shards tie on stake and count in the balance phase: only the shard
\* id orders them
C17_Witness ==
    /\ pc = "balance"
    /\ bp_iter > num_shards * min_validators_per_shard
    /\ \E i, j \in 1..Len(shard_index) :
          /\ i # j
          /\ shard_index[i][1] = shard_index[j][1]
          /\ shard_index[i][2] = shard_index[j][2]
          /\ shard_index[i][2] >= 1


\* how far the call has got: the elements drawn, then the phase
PcRank ==
    CASE pc = "start" -> 0
      [] pc = "quota" -> 1
      [] pc = "balance" -> 2
      [] OTHER -> 3

Progress == 4 * bp_iter + PcRank

\* C18 (bounded work): with num_shards >= 1 every step of assign_shards
\* draws a supply element or moves on to a later phase, never more than
\* max(participants.len(), num_shards * min_validators_per_shard) elements
\* are drawn, so the call stops (returns or fails) within that many
\* iterations; and a duplicate-avoidance scan pops at most num_shards
\* entries, the initially popped one included.
C18_BoundedWork ==
    [][num_shards >= 1 =>
          /\ Progress' > Progress
          /\ bp_iter' <= required_validator_count
          /\ QuotaDuplicate =>
                Len(buffer') + (IF pc' = "quota" THEN 1 ELSE 0) <= num_shards]_vars

\* a call that cycled returned after drawing the whole supply, its last
\* scan having popped every entry of the queue
C18_Witness ==
    /\ pc = "done"
    /\ num_shards >= 2
    /\ bp_iter = required_validator_count
    /\ bp_iter > num_block_producers
    /\ Len(buffer) = num_shards - 1


\* the quota-phase key of a shard, computed from its sequence
CountKey(shard_id) ==
    <<Len(result[shard_id + 1]), SumStake(result[shard_id + 1]), shard_id>>

\* C19 (quota phase without cycling): with more participants than
\* num_shards * min_validators_per_shard (num_shards >= 1) every quota
\* iteration takes the first-pass branch and gives the next participant in
\* input order to the shard whose (count, stake, shard id) is least; the
\* loop exits, into the balance phase, after exactly
\* num_shards * min_validators_per_shard assignments with every shard
\* holding exactly min_validators_per_shard participants.
C19_QuotaWithoutCycling ==
    [][(Surplus /\ num_shards >= 1 /\ pc = "quota") =>
          /\ pc' \in {"quota", "balance"}
          /\ pc' = "quota" =>
                /\ QuotaFirstPass
                /\ assignment_index < num_block_producers
                /\ \E r \in 0..(num_shards - 1) :
                      /\ \A s \in (0..(num_shards - 1)) \ {r} :
                            TripleLess(CountKey(r), CountKey(s))
                      /\ result' = [result EXCEPT
                                       ![r + 1] = Append(@, block_producers[bp_iter + 1])]
          /\ pc' = "balance" =>
                /\ bp_iter = num_shards * min_validators_per_shard
                /\ \A s \in 1..Len(result) :
                      Len(result[s]) = min_validators_per_shard
                /\ result' = result]_vars

\* the quota loop has exited without cycling, leaving shards of equal
\* count and unequal stake
C19_Witness ==
    /\ Surplus
    /\ pc = "balance"
    /\ num_shards >= 2
    /\ min_validators_per_shard >= 2
    /\ bp_iter = num_shards * min_validators_per_shard
    /\ \E s, t \in 1..Len(result) : SumStake(result[s]) < SumStake(result[t])


\* C20 (queue/result consistency): at the head of every quota and balance
\* iteration and at return, shard_index holds exactly one entry per shard
\* id in 0..num_shards-1, whose count is the length of the shard's sequence
\* and whose stake is the sum of its stakes (count first in the quota
\* phase, stake first once re-indexed), and the number of supply elements
\* drawn equals the number of assigned slots.
C20_QueueMatchesResult ==
    pc \in {"quota", "balance", "done"} =>
        /\ OneEntryPerShard(shard_index)
        /\ Len(result) = num_shards
        /\ pc = "quota" =>
              \A s \in 0..(num_shards - 1) :
                  EntryOf(shard_index, s) = CountKey(s)
        /\ pc = "balance" =>
              \A s \in 0..(num_shards - 1) :
                  EntryOf(shard_index, s) = StakeKey(s)
        /\ pc = "done" =>
              \/ \A s \in 0..(num_shards - 1) :
                    EntryOf(shard_index, s) = CountKey(s)
              \/ \A s \in 0..(num_shards - 1) :
                    EntryOf(shard_index, s) = StakeKey(s)
        /\ bp_iter = SumLen(result)

\* a call returned from the balance phase with several shards whose stake
\* sums differ from their lengths
C20_Witness ==
    /\ pc = "done"
    /\ num_shards >= 2
    /\ bp_iter > num_shards * min_validators_per_shard
    /\ \A s \in 0..(num_shards - 1) :
          /\ EntryOf(shard_index, s) = StakeKey(s)
          /\ StakeKey(s)[1] # StakeKey(s)[2]

====
